---- MODULE Spec2Model ----
(***************************************************************************)
(* Model of src/script.js: the Background3D animated-scene controller      *)
(* (construction through the async init(), the animation-frame loop, the   *)
(* resize and pointer handlers, dispose()).                                *)
(*                                                                         *)
(* JavaScript numbers are IEEE doubles.  Positions are modelled in fixed   *)
(* point: one unit is 1/Scale, and a product that is not a whole number of *)
(* units is rounded to the nearest unit (ties to even), as a double        *)
(* rounds to the nearest representable value.                              *)
(***************************************************************************)
EXTENDS Integers, Sequences, FiniteSets, TLC

VARIABLES
    pcInit,           \* position of constructor/init()
    webgl,            \* what isWebGLAvailable() reports (host capability)
    seed,             \* state of the host's Math.random generator
    now,              \* host time, in model time units
    hidden,           \* document.hidden
    window,           \* <<innerWidth, innerHeight>>
    scene,            \* this.scene
    camera,           \* this.camera
    renderer,         \* this.renderer
    attached,         \* renderer.domElement is a child of this.container
    particles,        \* this.particles
    geometries,       \* this.geometries
    mouse,            \* this.mouse
    frameId,          \* this.frameId (0 = null)
    isActive,         \* this.isActive
    clock,            \* this.clock
    pendingFrames,    \* animation-frame callbacks requested and not yet run
    nextFrameId,      \* next handle requestAnimationFrame returns
    resizeListeners,  \* function objects registered for window 'resize'
    mouseListeners,   \* number of 'mousemove' listeners on document
    nextFnId,         \* identity of the next function object bind() creates
    fallback,         \* static gradient applied to document.body
    uncaught,         \* an exception left a handler for the host
    renderCount,      \* renderer.render calls
    ticks,            \* animation-frame callbacks run
    disposeCalls,     \* dispose() calls
    \* ContactForm
    values,           \* field.value of #name, #email, #message
    groupClass,       \* 'error' / 'success' classes of each field's .form-group
    errorText,        \* textContent of each field's .error-message
    isSubmitting,     \* this.isSubmitting
    buttonDisabled,   \* this.submitButton.disabled
    loaderShown,      \* the button shows its loader instead of its text
    pendingSubmits,   \* formData of submitForm() calls whose timer is pending
    submits,          \* handleSubmit runs that passed the isSubmitting check
    submitCalls,      \* submitForm() calls
    lastSubmit,       \* what the latest submit event did: accepted or ignored
    notes,            \* the notification elements created, in order
    \* ThemeManager
    themeReady,       \* new ThemeManager() has run
    isDark,           \* this.isDark
    rootClasses       \* classList of document.documentElement

bgVars == <<pcInit, webgl, seed, now, hidden, window, scene, camera, renderer,
            attached, particles, geometries, mouse, frameId, isActive, clock,
            pendingFrames, nextFrameId, resizeListeners, mouseListeners,
            nextFnId, fallback, uncaught, renderCount, ticks, disposeCalls>>

formVars == <<values, groupClass, errorText, isSubmitting, buttonDisabled,
              loaderShown, pendingSubmits, submits, submitCalls, lastSubmit>>

themeVars == <<themeReady, isDark, rootClasses>>

uiVars == <<formVars, notes, themeVars>>

vars == <<bgVars, uiVars>>

(***************************** bounds **************************************)
Scale == 50          \* fixed-point units per 1.0
MaxTicks == 3        \* animation-frame callbacks explored
MaxDt == 1           \* largest host-time advance between two callbacks
MaxDispose == 2      \* dispose() calls explored
NumSeeds == 2        \* Math.random generator states explored

(************************ program constants ********************************)
particleCount == 2000
cameraDistance == 15
MouseEffectPercent == 2      \* config.mouseEffect = 0.02
GeometryKinds == <<"torus", "octahedron", "tetrahedron", "icosahedron">>

\* viewport sizes: the one the page loads at, and those resizes lead to
InitialWindow == <<4, 3>>
WindowSizes == {<<4, 3>>, <<8, 6>>, <<3, 4>>}
\* pointer positions of mousemove events: <<clientX / innerWidth, clientY / innerHeight>>
PointerCorners == {<<0, 0>>, <<1, 1>>, <<1, 0>>}

(***************************** arithmetic **********************************)
Abs(n) == IF n < 0 THEN -n ELSE n

RECURSIVE GCD(_, _)
GCD(a, b) == IF b = 0 THEN a ELSE GCD(b, a % b)

\* n / d rounded to the nearest integer, ties to even (d > 0)
RoundDiv(n, d) ==
    LET q == n \div d
        r == n % d
    IN  IF 2 * r < d THEN q
        ELSE IF 2 * r > d THEN q + 1
        ELSE IF q % 2 = 0 THEN q ELSE q + 1

\* window.innerWidth / window.innerHeight, as a fraction in lowest terms
Aspect(w, h) == LET g == GCD(w, h) IN <<w \div g, h \div g>>

\* Math.sin at phase step k of SinSteps, in units of 1/1000
SinMilli == <<0, 707, 1000, 707, 0, -707, -1000, -707>>
SinSteps == Len(SinMilli)
Sin(k) == RoundDiv(SinMilli[(k % SinSteps) + 1] * Scale, 1000)

\* Math.random draws of createFloatingGeometries for mesh i
RandomInitialY(s, i) == (((s * 7 + i * 3) % 20) - 10) * Scale
RandomSpeed(s, i) == 2 + ((s + i) % 2)
RandomOffset(s, i) == (s * 3 + i * 5) % SinSteps

(***************************************************************************)
(*                 ContactForm, its notifications, ThemeManager            *)
(***************************************************************************)
(***************************** bounds **************************************)
MaxStrLen == 6       \* longest name / email value explored
MaxPad == 2          \* most leading or trailing spaces of a message explored
MaxRun == 11         \* longest run of letters of a message explored
MaxSubmits == 3      \* handleSubmit runs explored

(************************ program constants ********************************)
MinNameLen == 2
MinMessageLen == 10

\* Object.values(this.fields), in insertion order
Fields == <<"name", "email", "message">>
FieldSet == {Fields[i] : i \in 1..Len(Fields)}

(******************************* strings ***********************************)
\* a string is the sequence of its characters
Alphabet == {"a", " ", "@", "."}
IsSpace(c) == c = " "

RECURSIVE Strings(_)
Strings(n) ==
    IF n = 0 THEN {<<>>}
    ELSE LET shorter == Strings(n - 1)
         IN  shorter \cup {Append(w, c) : w \in {x \in shorter : Len(x) = n - 1},
                                          c \in Alphabet}

Rep(c, n) == [i \in 1..n |-> c]

\* String.prototype.trim
RECURSIVE TrimStart(_)
TrimStart(v) ==
    IF v # <<>> /\ IsSpace(Head(v)) THEN TrimStart(Tail(v)) ELSE v

RECURSIVE TrimEnd(_)
TrimEnd(v) ==
    IF v # <<>> /\ IsSpace(v[Len(v)]) THEN TrimEnd(SubSeq(v, 1, Len(v) - 1)) ELSE v

Trim(v) == TrimEnd(TrimStart(v))

\* [^\s@]+ matches all of w
NoSpaceNoAt(w) == w # <<>> /\ \A k \in 1..Len(w) : ~IsSpace(w[k]) /\ w[k] # "@"

\* /^[^\s@]+@[^\s@]+\.[^\s@]+$/.test(v)
emailRegexTest(v) ==
    \E i, j \in 1..Len(v) :
        /\ i < j /\ v[i] = "@" /\ v[j] = "."
        /\ NoSpaceNoAt(SubSeq(v, 1, i - 1))
        /\ NoSpaceNoAt(SubSeq(v, i + 1, j - 1))
        /\ NoSpaceNoAt(SubSeq(v, j + 1, Len(v)))

(***************************** field values ********************************)
\* values the validation alone is explored over
AllNameValues == Strings(MaxStrLen)
AllEmailValues == Strings(MaxStrLen)
AllMessageValues ==
    {Rep(" ", l) \o Rep("a", n) \o Rep(" ", r) :
        l \in 0..MaxPad, n \in 0..MaxRun, r \in 0..MaxPad}
AllValues(f) ==
    IF f = "name" THEN AllNameValues
    ELSE IF f = "email" THEN AllEmailValues ELSE AllMessageValues

(***************************** validateField *******************************)
\* the isValid validateField computes for field f holding raw value raw
isValid_Raw(f, raw) ==
    IF f = "name" THEN ~(Len(raw) < MinNameLen)
    ELSE IF f = "email" THEN emailRegexTest(raw)
    ELSE IF f = "message" THEN ~(Len(raw) < MinMessageLen)
    ELSE TRUE

isValid_Always(f, raw) == TRUE

isValid(f, raw) ==
    LET value == Trim(raw)
    IN  IF f = "name" THEN ~(Len(value) < MinNameLen)
        ELSE IF f = "email" THEN emailRegexTest(value)
        ELSE IF f = "message" THEN ~(Len(value) < MinMessageLen)
        ELSE TRUE

\* the errorMessage validateField computes
errorMessage(f, raw) ==
    IF isValid(f, raw) THEN ""
    ELSE IF f = "name" THEN "Name must be at least 2 characters long"
    ELSE IF f = "email" THEN "Please enter a valid email address"
    ELSE "Message must be at least 10 characters long"

\* setFieldStatus: the classes of the field's .form-group afterwards
StatusClass(raw, valid) ==
    IF ~valid THEN {"error"}
    ELSE IF Trim(raw) # <<>> THEN {"success"} ELSE {}

\* setFieldStatus: the .error-message text afterwards
StatusText(old, raw, valid, msg) ==
    IF ~valid THEN msg
    ELSE IF Trim(raw) # <<>> THEN "" ELSE old

\* the ContactForm as its constructor leaves it, over a form holding vals
FormStart(vals) ==
    /\ values = vals
    /\ groupClass = [f \in FieldSet |-> {}]
    /\ errorText = [f \in FieldSet |-> ""]
    /\ isSubmitting = FALSE
    /\ buttonDisabled = FALSE
    /\ loaderShown = FALSE
    /\ pendingSubmits = <<>>
    /\ submits = 0
    /\ submitCalls = 0
    /\ lastSubmit = "none"

\* the ContactForm over the empty form of the page
FormInit == FormStart([f \in FieldSet |-> <<>>])

\* the page before new ThemeManager()
ThemeNew ==
    /\ themeReady = FALSE
    /\ isDark = TRUE

(************************** objects before creation ************************)
NoScene == [created |-> FALSE, children |-> {}]
NoCamera == [created |-> FALSE, aspect |-> <<0, 1>>, x |-> 0, y |-> 0, z |-> 0]
NoRenderer == [created |-> FALSE, size |-> <<0, 0>>, disposed |-> 0]
NoParticles == [created |-> FALSE, count |-> 0, time |-> 0,
                geometryDisposed |-> 0, materialDisposed |-> 0]
NewClock == [running |-> FALSE, oldTime |-> 0, elapsedTime |-> 0]

BgInit ==
    /\ pcInit = "new"
    /\ webgl \in BOOLEAN
    /\ seed \in 1..NumSeeds
    /\ now = 0
    /\ hidden \in BOOLEAN
    /\ window = InitialWindow
    /\ scene = NoScene
    /\ camera = NoCamera
    /\ renderer = NoRenderer
    /\ attached = FALSE
    /\ particles = NoParticles
    /\ geometries = <<>>
    /\ mouse = [x |-> 0, y |-> 0]
    /\ frameId = 0
    /\ isActive = TRUE
    /\ clock = NewClock
    /\ pendingFrames = {}
    /\ nextFrameId = 1
    /\ resizeListeners = {}
    /\ mouseListeners = 0
    /\ nextFnId = 1
    /\ fallback = FALSE
    /\ uncaught = FALSE
    /\ renderCount = 0
    /\ ticks = 0
    /\ disposeCalls = 0

\* the page at DOMContentLoaded, before its widgets are constructed
Init ==
    /\ BgInit
    /\ FormInit
    /\ notes = <<>>
    /\ ThemeNew
    /\ rootClasses = {}

(***************************** init() steps ********************************)
isWebGLAvailable == webgl

\* new THREE.PerspectiveCamera(60, innerWidth / innerHeight, 1, 100); position.z = 15
NewCamera(w, h) ==
    [created |-> TRUE, aspect |-> Aspect(w, h), x |-> 0, y |-> 0,
     z |-> cameraDistance * Scale]

\* new THREE.WebGLRenderer(...); renderer.setSize(innerWidth, innerHeight)
NewRenderer(w, h) == [created |-> TRUE, size |-> <<w, h>>, disposed |-> 0]

\* createParticles: the Points object over particleCount positions and scales
NewParticles ==
    [created |-> TRUE, count |-> particleCount, time |-> 0,
     geometryDisposed |-> 0, materialDisposed |-> 0]

\* the mesh createFloatingGeometries builds for geometry i
NewMesh(s, i) ==
    [kind |-> GeometryKinds[i],
     initialY |-> RandomInitialY(s, i),
     speed |-> RandomSpeed(s, i),
     offset |-> RandomOffset(s, i),
     y |-> RandomInitialY(s, i),
     rotation |-> 0,
     time |-> 0,
     geometryDisposed |-> 0,
     materialDisposed |-> 0]

createFloatingGeometries(s) == [i \in 1..Len(GeometryKinds) |-> NewMesh(s, i)]

(************************** handlers' computations *************************)
\* Function.prototype.bind: every call returns a new function object
Bind == nextFnId

\* EventTarget.removeEventListener: removes the listener that IS fn, if any
RemoveListener(listeners, fn) == listeners \ {fn}

\* mutant: the aspect is scaled by the new ratio instead of set to it
ResizeCamera_Scaled(cam, w, h) ==
    [cam EXCEPT !.aspect = Aspect(cam.aspect[1] * w, cam.aspect[2] * h)]

\* onWindowResize: camera.aspect = innerWidth / innerHeight (+ projection update)
ResizeCamera(cam, w, h) == [cam EXCEPT !.aspect = Aspect(w, h)]

\* onWindowResize: renderer.setSize(innerWidth, innerHeight)
ResizeRenderer(ren, w, h) == [ren EXCEPT !.size = <<w, h>>]

\* the mousemove listener: mouse.x = (clientX / innerWidth) * 2 - 1,
\*                         mouse.y = -(clientY / innerHeight) * 2 + 1
PointerToMouse(clientX, clientY, w, h) ==
    [x |-> RoundDiv(clientX * 2 * Scale, w) - Scale,
     y |-> Scale - RoundDiv(clientY * 2 * Scale, h)]

\* THREE.Clock.getDelta at host time t (the first call starts the clock)
GetDelta(clk, t) ==
    IF ~clk.running
    THEN [running |-> TRUE, oldTime |-> t, elapsedTime |-> 0]
    ELSE [clk EXCEPT !.oldTime = t, !.elapsedTime = @ + (t - clk.oldTime)]

\* mutant: the oscillation is added to the current y, not to initialY
AnimateMesh_Accumulates(mesh, time) ==
    [mesh EXCEPT !.time = time,
                 !.rotation = @ + 1,
                 !.y = mesh.y
                       + RoundDiv(Sin(time * mesh.speed + mesh.offset) * 3, 2)]

\* the forEach body of animate for one mesh
AnimateMesh(mesh, time) ==
    [mesh EXCEPT !.time = time,
                 !.rotation = @ + 1,
                 !.y = mesh.initialY
                       + RoundDiv(Sin(time * mesh.speed + mesh.offset) * 3, 2)]

\* mutant: the step is subtracted instead of added
Lerp_WrongSign(pos, m) == pos - RoundDiv((m * 2 - pos) * MouseEffectPercent, 100)

\* position += (mouse * 2 - position) * config.mouseEffect, one coordinate
Lerp(pos, m) == pos + RoundDiv((m * 2 - pos) * MouseEffectPercent, 100)

\* the camera steering of animate
SteerCamera(cam, m) == [cam EXCEPT !.x = Lerp(cam.x, m.x), !.y = Lerp(cam.y, m.y)]

\* mutant: the mesh's material is not released
DisposeMesh_GeometryOnly(mesh) == [mesh EXCEPT !.geometryDisposed = @ + 1]

\* dispose's forEach body for one mesh
DisposeMesh(mesh) ==
    [mesh EXCEPT !.geometryDisposed = @ + 1, !.materialDisposed = @ + 1]

\* dispose's release of the particle field
DisposeParticles(p) ==
    IF p.created
    THEN [p EXCEPT !.geometryDisposed = @ + 1, !.materialDisposed = @ + 1]
    ELSE p

\* mutant: dispose() also empties this.geometries
DisposeMeshes_Clear(meshes) == <<>>

\* dispose's forEach over this.geometries
DisposeMeshes(meshes) == [i \in DOMAIN meshes |-> DisposeMesh(meshes[i])]

MeshKinds == {GeometryKinds[i] : i \in 1..Len(GeometryKinds)}

\* the host runs listeners and animation frames as tasks of their own, never
\* between init()'s awaits (those resume as microtasks)
BetweenTasks == pcInit \in {"done", "failed"}

\* init() completed and dispose() was not called
Running == pcInit = "done" /\ isActive

(******************************* animate() *********************************)
\* animate() below its document.hidden check, at host time t: lines 282-309
AnimateWork(t) ==
    LET clk == GetDelta(GetDelta(clock, t), t)
        time == clk.elapsedTime
    IN  /\ clock' = clk
        /\ particles' = IF particles.created
                        THEN [particles EXCEPT !.time = time]
                        ELSE particles
        /\ geometries' = [i \in DOMAIN geometries |->
                              AnimateMesh(geometries[i], time)]
        /\ camera' = SteerCamera(camera, mouse)
        /\ renderCount' = renderCount + 1

AnimateSkip == UNCHANGED <<clock, particles, geometries, camera, renderCount>>

\* frameId = requestAnimationFrame(() => this.animate())
RequestFrame(pend) ==
    /\ frameId' = nextFrameId
    /\ nextFrameId' = nextFrameId + 1
    /\ pendingFrames' = pend \cup {nextFrameId}

\* mutant: animate() without its isActive check
Animate_NoActiveCheck(pend, t) ==
    /\ RequestFrame(pend)
    /\ IF hidden THEN AnimateSkip ELSE AnimateWork(t)

\* mutant: the next frame is requested before isActive is checked
Animate_RequestBeforeCheck(pend, t) ==
    /\ RequestFrame(pend)
    /\ IF ~isActive \/ hidden THEN AnimateSkip ELSE AnimateWork(t)

\* mutant: document.hidden is checked after the clock was read
Animate_HiddenCheckLate(pend, t) ==
    IF ~isActive
    THEN /\ pendingFrames' = pend
         /\ UNCHANGED <<frameId, nextFrameId>>
         /\ AnimateSkip
    ELSE /\ RequestFrame(pend)
         /\ IF hidden
            THEN /\ clock' = GetDelta(GetDelta(clock, t), t)
                 /\ UNCHANGED <<particles, geometries, camera, renderCount>>
            ELSE AnimateWork(t)

\* animate() called at host time t, pend = the callbacks pending at the call
Animate(pend, t) ==
    IF ~isActive
    THEN /\ pendingFrames' = pend
         /\ UNCHANGED <<frameId, nextFrameId>>
         /\ AnimateSkip
    ELSE /\ RequestFrame(pend)
         /\ IF hidden THEN AnimateSkip ELSE AnimateWork(t)

(*************************** constructor and init() ************************)
\* new Background3D(): the constructor and init() up to its first await.
\* An exception inside the async init() rejects its promise; fail names the
\* step of this part that throws, if any.
Construct ==
    /\ pcInit = "new"
    /\ \E fail \in {"none", "renderer", "particles"} :
         IF ~isWebGLAvailable
         THEN /\ pcInit' = "rejected"
              /\ UNCHANGED <<scene, camera, renderer, attached, particles>>
         ELSE /\ camera' = NewCamera(window[1], window[2])
              /\ IF fail = "renderer"
                 THEN /\ pcInit' = "rejected"
                      /\ scene' = [created |-> TRUE, children |-> {}]
                      /\ UNCHANGED <<renderer, attached, particles>>
                 ELSE /\ renderer' = NewRenderer(window[1], window[2])
                      /\ attached' = TRUE
                      /\ IF fail = "particles"
                         THEN /\ pcInit' = "rejected"
                              /\ scene' = [created |-> TRUE, children |-> {}]
                              /\ UNCHANGED particles
                         ELSE /\ pcInit' = "awaitParticles"
                              /\ particles' = NewParticles
                              /\ scene' = [created |-> TRUE,
                                           children |-> {"particles"}]
    /\ UNCHANGED <<webgl, seed, now, hidden, window, geometries, mouse, frameId,
                   isActive, clock, pendingFrames, nextFrameId, resizeListeners,
                   mouseListeners, nextFnId, fallback, uncaught, renderCount,
                   ticks, disposeCalls>>
    /\ UNCHANGED uiVars

\* mutant: an exception of createFloatingGeometries is swallowed and init()
\* goes on to addEventListeners() and animate()
ResumeCreateGeometries_SwallowsError ==
    /\ pcInit = "awaitParticles"
    /\ pcInit' = "awaitGeometries"
    /\ \E throws \in BOOLEAN :
         IF throws
         THEN UNCHANGED <<geometries, scene>>
         ELSE /\ geometries' = geometries \o createFloatingGeometries(seed)
              /\ scene' = [scene EXCEPT !.children =
                              @ \cup {"ambientLight", "pointLight"} \cup MeshKinds]
    /\ UNCHANGED <<webgl, seed, now, hidden, window, camera, renderer, attached,
                   particles, mouse, frameId, isActive, clock, pendingFrames,
                   nextFrameId, resizeListeners, mouseListeners, nextFnId,
                   fallback, uncaught, renderCount, ticks, disposeCalls>>
    /\ UNCHANGED uiVars

\* init() resumes after `await this.createParticles()` and runs
\* createFloatingGeometries up to the next await
ResumeCreateGeometries ==
    /\ pcInit = "awaitParticles"
    /\ \E throws \in BOOLEAN :
         IF throws
         THEN /\ pcInit' = "rejected"
              /\ UNCHANGED <<geometries, scene>>
         ELSE /\ pcInit' = "awaitGeometries"
              /\ geometries' = geometries \o createFloatingGeometries(seed)
              /\ scene' = [scene EXCEPT !.children =
                              @ \cup {"ambientLight", "pointLight"} \cup MeshKinds]
    /\ UNCHANGED <<webgl, seed, now, hidden, window, camera, renderer, attached,
                   particles, mouse, frameId, isActive, clock, pendingFrames,
                   nextFrameId, resizeListeners, mouseListeners, nextFnId,
                   fallback, uncaught, renderCount, ticks, disposeCalls>>
    /\ UNCHANGED uiVars

\* init() resumes after `await this.createFloatingGeometries()`:
\* addEventListeners(), then the first animate()
ResumeStartLoop ==
    /\ pcInit = "awaitGeometries"
    /\ pcInit' = "done"
    /\ resizeListeners' = resizeListeners \cup {Bind}
    /\ nextFnId' = nextFnId + 1
    /\ mouseListeners' = mouseListeners + 1
    /\ Animate(pendingFrames, now)
    /\ UNCHANGED <<webgl, seed, now, hidden, window, scene, renderer, attached,
                   mouse, isActive, fallback, uncaught, ticks, disposeCalls>>
    /\ UNCHANGED uiVars

\* mutant: the .catch handler logs the error and applies no fallback
CatchHandler_NoFallback ==
    /\ pcInit = "rejected"
    /\ pcInit' = "failed"
    /\ UNCHANGED <<webgl, seed, now, hidden, window, scene, camera, renderer,
                   attached, particles, geometries, mouse, frameId, isActive,
                   clock, pendingFrames, nextFrameId, resizeListeners,
                   mouseListeners, nextFnId, fallback, uncaught, renderCount,
                   ticks, disposeCalls>>
    /\ UNCHANGED uiVars

\* the .catch handler of the constructor: fallbackBackground()
CatchHandler ==
    /\ pcInit = "rejected"
    /\ pcInit' = "failed"
    /\ fallback' = TRUE
    /\ UNCHANGED <<webgl, seed, now, hidden, window, scene, camera, renderer,
                   attached, particles, geometries, mouse, frameId, isActive,
                   clock, pendingFrames, nextFrameId, resizeListeners,
                   mouseListeners, nextFnId, uncaught, renderCount, ticks,
                   disposeCalls>>
    /\ UNCHANGED uiVars

(****************************** host events ********************************)
\* the host runs a pending animation-frame callback, dt after the last one
FrameCallback ==
    /\ BetweenTasks
    /\ ticks < MaxTicks
    /\ \E id \in pendingFrames, dt \in 1..MaxDt :
         /\ now' = now + dt
         /\ Animate(pendingFrames \ {id}, now + dt)
    /\ ticks' = ticks + 1
    /\ UNCHANGED <<pcInit, webgl, seed, hidden, window, scene, renderer,
                   attached, mouse, isActive, resizeListeners, mouseListeners,
                   nextFnId, fallback, uncaught, disposeCalls>>
    /\ UNCHANGED uiVars

\* the viewport becomes w x h; the host calls every 'resize' listener
WindowResized ==
    /\ BetweenTasks
    /\ \E size \in WindowSizes :
         /\ window' = size
         /\ IF resizeListeners # {}
            THEN /\ camera' = ResizeCamera(camera, size[1], size[2])
                 /\ renderer' = ResizeRenderer(renderer, size[1], size[2])
            ELSE UNCHANGED <<camera, renderer>>
    /\ UNCHANGED <<pcInit, webgl, seed, now, hidden, scene, attached, particles,
                   geometries, mouse, frameId, isActive, clock, pendingFrames,
                   nextFrameId, resizeListeners, mouseListeners, nextFnId,
                   fallback, uncaught, renderCount, ticks, disposeCalls>>
    /\ UNCHANGED uiVars

\* a mousemove event reaches the listener of addEventListeners
MouseMove ==
    /\ BetweenTasks
    /\ mouseListeners > 0
    /\ \E p \in PointerCorners :
         mouse' = PointerToMouse(p[1] * window[1], p[2] * window[2],
                                 window[1], window[2])
    /\ UNCHANGED <<pcInit, webgl, seed, now, hidden, window, scene, camera,
                   renderer, attached, particles, geometries, frameId, isActive,
                   clock, pendingFrames, nextFrameId, resizeListeners,
                   mouseListeners, nextFnId, fallback, uncaught, renderCount,
                   ticks, disposeCalls>>
    /\ UNCHANGED uiVars

\* the tab is hidden or shown
VisibilityChange ==
    /\ BetweenTasks
    /\ hidden' = ~hidden
    /\ UNCHANGED <<pcInit, webgl, seed, now, window, scene, camera, renderer,
                   attached, particles, geometries, mouse, frameId, isActive,
                   clock, pendingFrames, nextFrameId, resizeListeners,
                   mouseListeners, nextFnId, fallback, uncaught, renderCount,
                   ticks, disposeCalls>>
    /\ UNCHANGED uiVars

(******************************** dispose() ********************************)
\* dispose(), called by the owner of the controller at any point after the
\* constructor returned.  removeChild throws when the canvas is no longer a
\* child of the container, which ends dispose() before removeEventListener.
Dispose ==
    /\ pcInit # "new"
    /\ disposeCalls < MaxDispose
    /\ disposeCalls' = disposeCalls + 1
    /\ isActive' = FALSE
    /\ pendingFrames' = pendingFrames \ {frameId}
    /\ geometries' = DisposeMeshes(geometries)
    /\ particles' = DisposeParticles(particles)
    /\ scene' = [scene EXCEPT !.children =
                    IF geometries = <<>>
                    THEN @ \ (IF particles.created THEN {"particles"} ELSE {})
                    ELSE @ \ (MeshKinds \cup
                              (IF particles.created THEN {"particles"} ELSE {}))]
    /\ IF renderer.created
       THEN /\ renderer' = [renderer EXCEPT !.disposed = @ + 1]
            /\ IF attached
               THEN /\ attached' = FALSE
                    /\ resizeListeners' = RemoveListener(resizeListeners, Bind)
                    /\ nextFnId' = nextFnId + 1
                    /\ UNCHANGED uncaught
               ELSE /\ uncaught' = TRUE
                    /\ UNCHANGED <<attached, resizeListeners, nextFnId>>
       ELSE /\ resizeListeners' = RemoveListener(resizeListeners, Bind)
            /\ nextFnId' = nextFnId + 1
            /\ UNCHANGED <<renderer, attached, uncaught>>
    /\ UNCHANGED <<pcInit, webgl, seed, now, hidden, window, camera, mouse,
                   frameId, nextFrameId, clock, mouseListeners, fallback,
                   renderCount, ticks>>
    /\ UNCHANGED uiVars

Next ==
    \/ Construct
    \/ ResumeCreateGeometries
    \/ ResumeStartLoop
    \/ CatchHandler
    \/ FrameCallback
    \/ WindowResized
    \/ MouseMove
    \/ VisibilityChange
    \/ Dispose

Spec == Init /\ [][Next]_vars

(***************************************************************************)
(*                        the page's form and theme                        *)
(***************************************************************************)
\* values typed into the form while the whole page is explored
TypedValues(f) ==
    IF f = "name" THEN {<<" ", "a", "a">>}
    ELSE IF f = "email" THEN {<<"a", "@", "a">>, <<"a", "@", "a", ".", "a">>}
    ELSE {Rep("a", MinMessageLen) \o <<" ">>}

(***************************** notifications *******************************)
\* lines 450-451: every .notification in the document is removed
RemoveExisting_Keeps(ns) == ns

RemoveExisting(ns) == [n \in DOMAIN ns |-> [ns[n] EXCEPT !.attached = FALSE]]

\* the element the timer callbacks of the i-th notification close over
TimerTarget_Latest(ns, i) == Len(ns)

TimerTarget(ns, i) == i

\* showNotification(message, type): the elements afterwards, the new one last,
\* attached above the viewport with its slide timer pending
showNotification(ns, type) ==
    Append(RemoveExisting(ns),
           [type |-> type, attached |-> TRUE, top |-> "-100px", phase |-> "slide"])

\* timers of equal delay fire in the order they were set
EarlierPast(i, phases) == \A k \in 1..(i - 1) : notes[k].phase \notin phases

\* lines 480-482, 10 ms after showNotification
SlideTimer(i) ==
    /\ notes[i].phase = "slide"
    /\ EarlierPast(i, {"slide"})
    /\ notes' = [n \in DOMAIN notes |->
                    IF n = i THEN
                        [notes[n] EXCEPT !.phase = "shown",
                                         !.top = IF TimerTarget(notes, i) = n
                                                 THEN "20px" ELSE @]
                    ELSE IF n = TimerTarget(notes, i)
                         THEN [notes[n] EXCEPT !.top = "20px"] ELSE notes[n]]
    /\ UNCHANGED <<bgVars, formVars, themeVars>>

\* lines 485-488, 3000 ms after showNotification: slide out, set the remove timer
HideTimer(i) ==
    /\ notes[i].phase = "shown"
    /\ EarlierPast(i, {"slide", "shown"})
    /\ notes' = [n \in DOMAIN notes |->
                    IF n = i THEN
                        [notes[n] EXCEPT !.phase = "hiding",
                                         !.top = IF TimerTarget(notes, i) = n
                                                 THEN "-100px" ELSE @]
                    ELSE IF n = TimerTarget(notes, i)
                         THEN [notes[n] EXCEPT !.top = "-100px"] ELSE notes[n]]
    /\ UNCHANGED <<bgVars, formVars, themeVars>>

\* line 487, 500 ms after the hide timer: notification.remove()
RemoveTimer(i) ==
    /\ notes[i].phase = "hiding"
    /\ EarlierPast(i, {"slide", "shown", "hiding"})
    /\ notes' = [n \in DOMAIN notes |->
                    IF n = i THEN
                        [notes[n] EXCEPT !.phase = "done",
                                         !.attached = IF TimerTarget(notes, i) = n
                                                      THEN FALSE ELSE @]
                    ELSE IF n = TimerTarget(notes, i)
                         THEN [notes[n] EXCEPT !.attached = FALSE] ELSE notes[n]]
    /\ UNCHANGED <<bgVars, formVars, themeVars>>

(******************************* the form **********************************)
\* validateField(field) applied to the form: the classes and texts afterwards
validateFieldClass(cls, f) ==
    [cls EXCEPT ![f] = StatusClass(values[f], isValid(f, values[f]))]

validateFieldText(txt, f) ==
    [txt EXCEPT ![f] = StatusText(@, values[f], isValid(f, values[f]),
                                  errorMessage(f, values[f]))]

\* lines 391-392: Array.prototype.every stops at the first field whose
\* validateField returns false; 0 when every field is valid
FirstInvalid ==
    IF \A i \in 1..Len(Fields) : isValid(Fields[i], values[Fields[i]]) THEN 0
    ELSE CHOOSE i \in 1..Len(Fields) :
            /\ ~isValid(Fields[i], values[Fields[i]])
            /\ \A k \in 1..(i - 1) : isValid(Fields[k], values[Fields[k]])

\* the fields validateField is called on by line 391
Visited ==
    {Fields[i] : i \in {k \in 1..Len(Fields) : FirstInvalid = 0 \/ k <= FirstInvalid}}

\* lines 399-403
formData == [f \in FieldSet |-> Trim(values[f])]

\* line 421: the loading flag the finally block leaves
LoadingAfterFinally_Kept == TRUE

LoadingAfterFinally == FALSE

\* the guard of line 385
AlreadySubmitting_Never == FALSE

AlreadySubmitting == isSubmitting

\* the input event of a field: the user edits it, clearError runs
Input(f, v) ==
    /\ v # values[f]
    /\ values' = [values EXCEPT ![f] = v]
    /\ groupClass' = [groupClass EXCEPT ![f] = @ \ {"error"}]
    /\ errorText' = [errorText EXCEPT ![f] = ""]
    /\ UNCHANGED <<isSubmitting, buttonDisabled, loaderShown, pendingSubmits,
                   submits, submitCalls, lastSubmit>>
    /\ UNCHANGED <<bgVars, notes, themeVars>>

\* the blur event of a field: validateField(field)
Blur(f) ==
    /\ groupClass' = validateFieldClass(groupClass, f)
    /\ errorText' = validateFieldText(errorText, f)
    /\ UNCHANGED <<values, isSubmitting, buttonDisabled, loaderShown,
                   pendingSubmits, submits, submitCalls, lastSubmit>>
    /\ UNCHANGED <<bgVars, notes, themeVars>>

\* the submit event: handleSubmit up to its await, or to its end when it
\* returns or throws before the await
SubmitEvent ==
    IF AlreadySubmitting THEN
        /\ lastSubmit' = "ignored"
        /\ UNCHANGED <<values, groupClass, errorText, isSubmitting, buttonDisabled,
                       loaderShown, pendingSubmits, submits, submitCalls>>
        /\ UNCHANGED <<bgVars, notes, themeVars>>
    ELSE
        /\ submits < MaxSubmits
        /\ lastSubmit' = "accepted"
        /\ submits' = submits + 1
        /\ groupClass' = [f \in FieldSet |->
                             IF f \in Visited
                             THEN StatusClass(values[f], isValid(f, values[f]))
                             ELSE groupClass[f]]
        /\ errorText' = [f \in FieldSet |->
                            IF f \in Visited
                            THEN StatusText(errorText[f], values[f],
                                            isValid(f, values[f]),
                                            errorMessage(f, values[f]))
                            ELSE errorText[f]]
        /\ IF FirstInvalid # 0 THEN
               \* throw, catch, finally: setLoading(true) is undone in the same task
               /\ notes' = showNotification(notes, "error")
               /\ isSubmitting' = LoadingAfterFinally
               /\ buttonDisabled' = LoadingAfterFinally
               /\ loaderShown' = LoadingAfterFinally
               /\ UNCHANGED <<pendingSubmits, submitCalls>>
           ELSE
               /\ isSubmitting' = TRUE
               /\ buttonDisabled' = TRUE
               /\ loaderShown' = TRUE
               /\ pendingSubmits' = Append(pendingSubmits, formData)
               /\ submitCalls' = submitCalls + 1
               /\ UNCHANGED notes
        /\ UNCHANGED <<values, bgVars, themeVars>>

\* the 1500 ms timer of submitForm resolves its promise and handleSubmit
\* resumes after the await
SubmitResolved ==
    /\ pendingSubmits # <<>>
    /\ pendingSubmits' = Tail(pendingSubmits)
    /\ notes' = showNotification(notes, "success")
    /\ values' = [f \in FieldSet |-> <<>>]
    /\ groupClass' = [f \in FieldSet |-> {}]
    /\ isSubmitting' = LoadingAfterFinally
    /\ buttonDisabled' = LoadingAfterFinally
    /\ loaderShown' = LoadingAfterFinally
    /\ UNCHANGED <<errorText, submits, submitCalls, lastSubmit>>
    /\ UNCHANGED <<bgVars, themeVars>>

(******************************* the theme *********************************)
\* classList.toggle(token, force)
ClassToggle_Flip(classes, token, force) ==
    IF token \in classes THEN classes \ {token} ELSE classes \cup {token}

ClassToggle(classes, token, force) ==
    IF force THEN classes \cup {token} ELSE classes \ {token}

applyTheme(classes, dark) ==
    ClassToggle(ClassToggle(classes, "light-theme", ~dark), "dark-theme", dark)

\* new ThemeManager()
ThemeConstruct ==
    /\ ~themeReady
    /\ themeReady' = TRUE
    /\ isDark' = TRUE
    /\ rootClasses' = applyTheme(rootClasses, TRUE)
    /\ UNCHANGED <<bgVars, formVars, notes>>

\* a click on the theme toggle button
toggleTheme ==
    /\ themeReady
    /\ isDark' = ~isDark
    /\ rootClasses' = applyTheme(rootClasses, ~isDark)
    /\ UNCHANGED <<themeReady, bgVars, formVars, notes>>

\* the page at DOMContentLoaded with the document root carrying any classes
InitPage ==
    /\ BgInit
    /\ webgl
    /\ seed = 1
    /\ ~hidden
    /\ FormInit
    /\ notes = <<>>
    /\ ThemeNew
    /\ rootClasses \in SUBSET {"light-theme", "dark-theme"}

\* the form and its notifications, the theme left alone
InitForm == InitPage /\ rootClasses = {}

NextPage ==
    \/ \E f \in FieldSet : \E v \in TypedValues(f) : Input(f, v)
    \/ \E f \in FieldSet : Blur(f)
    \/ SubmitEvent
    \/ SubmitResolved
    \/ \E i \in DOMAIN notes : SlideTimer(i)
    \/ \E i \in DOMAIN notes : HideTimer(i)
    \/ \E i \in DOMAIN notes : RemoveTimer(i)

SpecPage == InitForm /\ [][NextPage]_vars

\* the submissions and their notifications, no field ever losing focus
NextNotify ==
    \/ \E f \in FieldSet : \E v \in TypedValues(f) : Input(f, v)
    \/ SubmitEvent
    \/ SubmitResolved
    \/ \E i \in DOMAIN notes : SlideTimer(i)
    \/ \E i \in DOMAIN notes : HideTimer(i)
    \/ \E i \in DOMAIN notes : RemoveTimer(i)

SpecNotify == InitForm /\ [][NextNotify]_vars

\* every timer set eventually fires
SpecNotifyFair ==
    /\ SpecNotify
    /\ WF_vars(SubmitResolved)
    /\ \A i \in 1..MaxSubmits :
          /\ WF_vars(i \in DOMAIN notes /\ SlideTimer(i))
          /\ WF_vars(i \in DOMAIN notes /\ HideTimer(i))
          /\ WF_vars(i \in DOMAIN notes /\ RemoveTimer(i))

\* the theme toggle on a page whose form is being filled in
NextTheme ==
    \/ ThemeConstruct
    \/ toggleTheme
    \/ \E f \in FieldSet : \E v \in TypedValues(f) : Input(f, v)
    \/ \E f \in FieldSet : Blur(f)

SpecTheme == InitPage /\ [][NextTheme]_vars

\* validateField alone, over every value of one field
InitValidate ==
    /\ BgInit
    /\ webgl
    /\ seed = 1
    /\ ~hidden
    /\ notes = <<>>
    /\ ThemeNew
    /\ rootClasses = {}
    /\ \E f \in FieldSet : \E v \in AllValues(f) :
          FormStart([g \in FieldSet |-> IF g = f THEN v ELSE <<>>])

NextValidate == \E f \in FieldSet : Blur(f)

SpecValidate == InitValidate /\ [][NextValidate]_vars

(************************* the camera steering alone ***********************)
\* The controller as init() leaves it on a visible page: everything created,
\* listeners registered, the first animate() run at host time 0.
InitLerp ==
    /\ pcInit = "done"
    /\ webgl = TRUE
    /\ seed = 1
    /\ now = 0
    /\ hidden = FALSE
    /\ window = InitialWindow
    /\ scene = [created |-> TRUE,
                children |-> {"particles", "ambientLight", "pointLight"}
                             \cup MeshKinds]
    /\ camera = NewCamera(InitialWindow[1], InitialWindow[2])
    /\ renderer = NewRenderer(InitialWindow[1], InitialWindow[2])
    /\ attached = TRUE
    /\ particles = NewParticles
    /\ geometries = [i \in 1..Len(GeometryKinds) |-> AnimateMesh(NewMesh(1, i), 0)]
    /\ mouse = [x |-> 0, y |-> 0]
    /\ frameId = 1
    /\ isActive = TRUE
    /\ clock = [running |-> TRUE, oldTime |-> 0, elapsedTime |-> 0]
    /\ pendingFrames = {1}
    /\ nextFrameId = 2
    /\ resizeListeners = {1}
    /\ mouseListeners = 1
    /\ nextFnId = 2
    /\ fallback = FALSE
    /\ uncaught = FALSE
    /\ renderCount = 1
    /\ ticks = 0
    /\ disposeCalls = 0
    /\ FormInit
    /\ notes = <<>>
    /\ ThemeNew
    /\ rootClasses = {}

\* lines 305-306 of a visible tick, on their own: what any number of ticks
\* do to the camera position
Steer ==
    /\ Running /\ ~hidden
    /\ camera' = SteerCamera(camera, mouse)
    /\ UNCHANGED <<pcInit, webgl, seed, now, hidden, window, scene, renderer,
                   attached, particles, geometries, mouse, frameId, isActive,
                   clock, pendingFrames, nextFrameId, resizeListeners,
                   mouseListeners, nextFnId, fallback, uncaught, renderCount,
                   ticks, disposeCalls>>
    /\ UNCHANGED uiVars

NextLerp ==
    \/ MouseMove
    \/ Steer

SpecLerp == InitLerp /\ [][NextLerp]_vars

\* the host runs a frame callback at every display refresh of a visible page
SpecLerpFair == SpecLerp /\ WF_vars(Steer)

(***************************************************************************)
(*                              Properties                                 *)
(***************************************************************************)
OnePerKind ==
    /\ Len(geometries) = Len(GeometryKinds)
    /\ \A i \in 1..Len(GeometryKinds) : geometries[i].kind = GeometryKinds[i]

\* dispose() is being called for the first time, on a controller whose
\* init() completed
FirstDisposeOfRunning ==
    pcInit = "done" /\ isActive /\ disposeCalls = 0 /\ disposeCalls' = 1

\* this step ran animate(): as an animation-frame callback, or as the call
\* that ends init()
AnimateRan == ticks' = ticks + 1 \/ (pcInit = "awaitGeometries" /\ pcInit' = "done")

\* C1: with no dispose() involved, init() ends either running (4 solids, one
\* per kind, a field of particleCount particles, the canvas attached, the
\* loop started) or in the fallback with no canvas attached; the canvas is
\* never left attached by an init() that failed.
C1_AllOrNothing ==
    disposeCalls = 0 =>
        /\ pcInit = "done" =>
              /\ isActive /\ OnePerKind
              /\ particles.created /\ particles.count = particleCount
              /\ attached /\ Cardinality(pendingFrames) = 1
        /\ pcInit = "failed" => fallback /\ ~attached
        /\ pcInit = "rejected" => ~attached

\* C2: when isWebGLAvailable() reports false, construction ends in the
\* fallback: no scene, camera or renderer is created, nothing is attached,
\* no frame is requested, and no exception reaches the caller.
C2_NoWebGLFallsBack ==
    ~webgl =>
        /\ pcInit \in {"new", "rejected", "failed"}
        /\ pcInit = "failed" => fallback
        /\ ~scene.created /\ ~camera.created /\ ~renderer.created
        /\ ~attached
        /\ pendingFrames = {} /\ frameId = 0
        /\ ~uncaught

C2_Witness == ~webgl /\ pcInit = "failed" /\ fallback /\ ~attached

\* C3: once dispose() has set isActive to false it stays false, and no step
\* that runs animate() requests a frame, advances the clock, moves a solid,
\* the particle time or the camera, or renders.
C3_DisposeIsTerminal ==
    [][~isActive =>
         /\ ~isActive'
         /\ AnimateRan =>
              /\ pendingFrames' \subseteq pendingFrames
              /\ nextFrameId' = nextFrameId /\ frameId' = frameId
              /\ clock' = clock
              /\ geometries' = geometries
              /\ particles' = particles
              /\ camera' = camera
              /\ renderCount' = renderCount]_vars

\* dispose() came while init() was awaiting; init() then ran to its end and
\* its animate() call returned without requesting a frame
C3_Witness ==
    /\ pcInit = "done" /\ disposeCalls = 1 /\ ~isActive
    /\ OnePerKind /\ resizeListeners # {}
    /\ frameId = 0 /\ pendingFrames = {} /\ renderCount = 0

\* C4: the first dispose() of a running controller leaves no 'resize'
\* listener registered.
C4_ResizeListenerRemoved ==
    [][FirstDisposeOfRunning => resizeListeners' = {}]_vars

\* C5: nothing is released before dispose(); the first dispose() of a running
\* controller releases the geometry and material of each of the 4 solids and
\* of the particle field, and the renderer, once each, and detaches the
\* canvas; no other step releases anything.
C5_DisposeReleasesOnce ==
    [][/\ disposeCalls = 0 =>
             /\ \A i \in DOMAIN geometries :
                    /\ geometries[i].geometryDisposed = 0
                    /\ geometries[i].materialDisposed = 0
             /\ particles.geometryDisposed = 0 /\ particles.materialDisposed = 0
             /\ renderer.disposed = 0
       /\ FirstDisposeOfRunning =>
             /\ Len(geometries') = Len(GeometryKinds)
             /\ \A i \in DOMAIN geometries' :
                    /\ geometries'[i].geometryDisposed = 1
                    /\ geometries'[i].materialDisposed = 1
             /\ particles'.geometryDisposed = 1 /\ particles'.materialDisposed = 1
             /\ renderer'.disposed = 1
             /\ ~attached'
       /\ (disposeCalls' = disposeCalls /\ pcInit = "done") =>
             /\ \A i \in DOMAIN geometries :
                    /\ geometries'[i].geometryDisposed = geometries[i].geometryDisposed
                    /\ geometries'[i].materialDisposed = geometries[i].materialDisposed
             /\ particles'.geometryDisposed = particles.geometryDisposed
             /\ particles'.materialDisposed = particles.materialDisposed
             /\ renderer'.disposed = renderer.disposed
             /\ attached' = attached]_vars

\* a controller that ran and rendered, then was disposed once
C5_Witness ==
    /\ pcInit = "done" /\ disposeCalls = 1 /\ renderCount >= 2 /\ ticks >= 2
    /\ \A i \in DOMAIN geometries : geometries[i].geometryDisposed = 1
    /\ renderer.disposed = 1 /\ ~attached

\* C6: at most one animation-frame callback is pending; a running controller
\* has exactly one pending, the one frameId names, and a controller that is
\* not running has none.
C6_OneFramePending ==
    /\ Cardinality(pendingFrames) <= 1
    /\ Running => pendingFrames = {frameId}
    /\ ~Running => pendingFrames = {}

C6_Witness ==
    /\ Running /\ ticks >= 2 /\ pendingFrames = {frameId} /\ frameId >= 3
    /\ mouse.x # 0 /\ window # InitialWindow

\* C7: an animate() of an active controller while the document is hidden
\* leaves the clock, the particle field, the solids and the camera as they
\* were, renders nothing, and leaves exactly one frame requested.
C7_HiddenTickSkipsWork ==
    [][(AnimateRan /\ hidden /\ isActive) =>
         /\ clock' = clock
         /\ particles' = particles
         /\ geometries' = geometries
         /\ camera' = camera
         /\ renderCount' = renderCount
         /\ Cardinality(pendingFrames') = 1
         /\ pendingFrames' # pendingFrames]_vars

\* hidden ticks only (the clock was never started), after a pointer move
C7_Witness ==
    /\ Running /\ hidden /\ ticks >= 2 /\ renderCount = 0 /\ ~clock.running
    /\ mouse.x # 0 /\ camera.x = 0 /\ Cardinality(pendingFrames) = 1

\* C8: once createFloatingGeometries has run there are 4 solids, one per
\* kind, and the particle field once created has particleCount particles,
\* in every later state.
C8_CountsFixed ==
    /\ pcInit \in {"awaitGeometries", "done"} => OnePerKind
    /\ Len(geometries) \in {0, Len(GeometryKinds)}
    /\ particles.created => particles.count = particleCount
    /\ pcInit \in {"awaitParticles", "awaitGeometries", "done"} => particles.created

C8_Witness ==
    /\ pcInit = "done" /\ disposeCalls = MaxDispose /\ ticks >= 1
    /\ window # InitialWindow /\ mouse.x # 0
    /\ OnePerKind /\ particles.count = particleCount

\* C9: for the camera and renderer of any reachable state and any viewport
\* size, running onWindowResize a second time with that size changes neither
\* the aspect nor the surface size the first run left.
C9_ResizeIdempotent ==
    (camera.created /\ renderer.created) =>
        \A size \in WindowSizes :
            LET c1 == ResizeCamera(camera, size[1], size[2])
                r1 == ResizeRenderer(renderer, size[1], size[2])
                c2 == ResizeCamera(c1, size[1], size[2])
                r2 == ResizeRenderer(r1, size[1], size[2])
            IN  /\ c1.aspect = Aspect(size[1], size[2]) /\ r1.size = size
                /\ c2 = c1 /\ r2 = r1

\* the handler has run: the surface has a size the page did not load at, and
\* the 8 x 6 viewport gives the aspect of the 4 x 3 one
C9_Witness ==
    /\ renderer.created /\ renderer.size = <<8, 6>> /\ camera.aspect = <<4, 3>>
    /\ window = <<8, 6>>

\* distance of a camera coordinate to its target mouse * 2
Dist(pos, m) == Abs(m * 2 - pos)

\* a tick's step from pos stays between pos and the target
NoOvershoot(pos, m) ==
    LET n == Lerp(pos, m)
    IN  /\ pos <= m * 2 => (pos <= n /\ n <= m * 2)
        /\ pos >= m * 2 => (m * 2 <= n /\ n <= pos)

\* the largest distance whose increment, distance * mouseEffect, rounds to
\* zero: at most half a unit
StallRadius == 100 \div (2 * MouseEffectPercent)

\* C10 as stated: from every camera position the ticks reach, the next tick
\* moves x and y strictly closer to mouse * 2 unless already there, without
\* overshooting.
C10_StrictlyCloser ==
    /\ NoOvershoot(camera.x, mouse.x) /\ NoOvershoot(camera.y, mouse.y)
    /\ camera.x # mouse.x * 2 =>
           Dist(Lerp(camera.x, mouse.x), mouse.x) < Dist(camera.x, mouse.x)
    /\ camera.y # mouse.y * 2 =>
           Dist(Lerp(camera.y, mouse.y), mouse.y) < Dist(camera.y, mouse.y)

\* from every camera position the ticks reach, the next tick leaves x and y
\* between their value and mouse * 2, and strictly closer whenever the
\* increment does not round to zero
StepCloserUntilRounding ==
    /\ NoOvershoot(camera.x, mouse.x) /\ NoOvershoot(camera.y, mouse.y)
    /\ Dist(Lerp(camera.x, mouse.x), mouse.x) <= Dist(camera.x, mouse.x)
    /\ Dist(Lerp(camera.y, mouse.y), mouse.y) <= Dist(camera.y, mouse.y)
    /\ Dist(camera.x, mouse.x) > StallRadius =>
           Dist(Lerp(camera.x, mouse.x), mouse.x) < Dist(camera.x, mouse.x)
    /\ Dist(camera.y, mouse.y) > StallRadius =>
           Dist(Lerp(camera.y, mouse.y), mouse.y) < Dist(camera.y, mouse.y)

\* x and y are within the distance at which the increment rounds to zero
Settled ==
    Dist(camera.x, mouse.x) <= StallRadius /\ Dist(camera.y, mouse.y) <= StallRadius

\* C10 amended: every tick leaves camera x and y between their value and
\* mouse * 2 (never farther, never past the target) and strictly closer
\* whenever the increment does not round to zero; with the pointer held
\* still, repeated ticks bring both to within the distance at which it does,
\* where they stay.
C10_ConvergesUpToRounding ==
    /\ []StepCloserUntilRounding
    /\ ([]<><<mouse' # mouse>>_vars) \/ <>[]Settled

\* the ticks have carried the camera towards a pointer held in a corner, to
\* where the increment rounds to zero short of the target
C10_Witness ==
    /\ mouse.x # 0 /\ camera.x # 0 /\ camera.y # 0
    /\ camera.x # mouse.x * 2 /\ Settled
    /\ Lerp(camera.x, mouse.x) = camera.x
    /\ Lerp(camera.y, mouse.y) = camera.y

\* the running state the steering is explored from
InitLerpReached == InitLerp

\* C11: every floating solid's y is within 1.5 of the initialY recorded at
\* setup, before the first tick and after any ticks.
C11_OscillationBound ==
    \A i \in DOMAIN geometries :
        Abs(geometries[i].y - geometries[i].initialY) * 2 <= 3 * Scale

\* after ticks at different elapsed times, a solid away from initialY, and
\* one that has been at the full amplitude on either side
C11_Witness ==
    /\ Running /\ ticks >= 2 /\ clock.elapsedTime >= 2
    /\ \E i \in DOMAIN geometries :
           Abs(geometries[i].y - geometries[i].initialY) * 2 >= 3 * Scale - 1
    /\ \E i \in DOMAIN geometries :
           /\ geometries[i].y # geometries[i].initialY
           /\ Abs(geometries[i].y - geometries[i].initialY) * 2 < 3 * Scale - 1

\* the controller is fully set up: camera, renderer, particle field and the
\* floating solids exist
FullySetUp ==
    /\ camera.created /\ renderer.created /\ particles.created /\ OnePerKind

\* C20: a frame is requested, animate() does work, and the resize and
\* mousemove listeners are registered only on a fully set-up controller; when
\* init() failed there is no listener and no frame was ever requested.
C20_OnlyWhenSetUp ==
    /\ (resizeListeners # {} \/ mouseListeners > 0 \/ nextFrameId > 1
        \/ pendingFrames # {} \/ frameId # 0 \/ renderCount > 0 \/ clock.running)
           => FullySetUp
    /\ pcInit \in {"rejected", "failed"} =>
           /\ resizeListeners = {} /\ mouseListeners = 0
           /\ pendingFrames = {} /\ frameId = 0 /\ nextFrameId = 1
           /\ renderCount = 0

\* a set-up controller that ticked and handled a resize
C20_Witness ==
    /\ Running /\ FullySetUp /\ ticks >= 1 /\ renderCount >= 2
    /\ resizeListeners # {} /\ renderer.size = <<3, 4>>

(************************** notifications and theme ************************)
Attached == {i \in DOMAIN notes : notes[i].attached}

\* C12: at most one notification element is attached to the document at any
\* time, and it is the one created last: showNotification detaches every
\* earlier element in the same step that attaches the new one.
C12_OneNotification ==
    /\ Cardinality(Attached) <= 1
    /\ Attached \subseteq {Len(notes)}

\* a notification was replaced while its own timers were still pending
C12_Witness ==
    /\ Len(notes) >= 2
    /\ notes[1].phase \in {"slide", "shown"}
    /\ ~notes[1].attached
    /\ notes[Len(notes)].attached

\* C13: once the ThemeManager is constructed, exactly one of 'light-theme' and
\* 'dark-theme' is on the document root, 'dark-theme' is there iff isDark, and
\* toggling twice gives back the same isDark and the same root classes.
C13_ExclusiveFlags ==
    themeReady =>
        /\ ("dark-theme" \in rootClasses) # ("light-theme" \in rootClasses)
        /\ ("dark-theme" \in rootClasses) <=> isDark
        /\ applyTheme(applyTheme(rootClasses, ~isDark), isDark) = rootClasses

\* the light theme after a toggle
C13_Witness ==
    /\ themeReady
    /\ ~isDark
    /\ rootClasses = {"light-theme"}

\* C19 (safety part): a step changes whether a notification is attached, or
\* its top, only when a newer notification is shown or when one of that
\* notification's own timers fires.
OwnTimersOnly ==
    \A i \in DOMAIN notes :
        (notes'[i].attached # notes[i].attached \/ notes'[i].top # notes[i].top)
            => (Len(notes') > Len(notes) \/ notes'[i].phase # notes[i].phase)

\* C19: timers act only on their own notification, and every notification
\* shown is eventually off the document, given that every timer set fires.
C19_OwnTimersAndRemoval ==
    /\ [][OwnTimersOnly]_vars
    /\ \A i \in 1..MaxSubmits :
          (i \in DOMAIN notes /\ notes[i].attached)
              ~> (i \in DOMAIN notes /\ ~notes[i].attached)

\* the timers of a replaced notification have all fired while the newer one
\* is still shown
C19_Witness ==
    /\ Len(notes) >= 2
    /\ notes[1].phase = "done"
    /\ notes[2].attached
    /\ notes[2].top = "20px"
    /\ notes[2].phase = "shown"

(******************************** the form *********************************)
Count(v, c) == Cardinality({k \in 1..Len(v) : v[k] = c})

\* local@domain.tld: no whitespace, one "@" after at least one character, and
\* a "." with at least one character between the "@" and it and after it
EmailShape(v) ==
    /\ Count(v, " ") = 0
    /\ Count(v, "@") = 1
    /\ LET at == CHOOSE k \in 1..Len(v) : v[k] = "@"
       IN  /\ at > 1
           /\ \E j \in (at + 2)..(Len(v) - 1) : v[j] = "."

\* the rule of a field's kind, applied to the string v
KindRule(f, v) ==
    IF f = "name" THEN Len(v) >= MinNameLen
    ELSE IF f = "email" THEN EmailShape(v)
    ELSE Len(v) >= MinMessageLen

\* C14 as stated: validateField returns valid exactly when the field's value
\* satisfies the rule of its kind.
C14_RuleOnValue ==
    \A f \in FieldSet : isValid(f, values[f]) <=> KindRule(f, values[f])

\* C14: validateField returns valid exactly when the field's value with its
\* leading and trailing whitespace removed satisfies the rule of its kind, its
\* error message is non-empty exactly when invalid, and the status it sets on
\* the field shows the same verdict.
C14_RuleOnTrimmedValue ==
    \A f \in FieldSet :
        LET ok == KindRule(f, Trim(values[f]))
        IN  /\ isValid(f, values[f]) <=> ok
            /\ errorMessage(f, values[f]) # "" <=> ~ok
            /\ groupClass[f] # {} =>
                  /\ groupClass[f] = IF ok THEN {"success"} ELSE {"error"}
                  /\ errorText[f] # "" <=> ~ok

\* a one-letter name typed after a space has been validated and rejected
C14_Witness ==
    /\ values["name"] = <<" ", "a">>
    /\ groupClass["name"] = {"error"}
    /\ errorText["name"] # ""

\* an accepted run of handleSubmit
Accepted == submits' = submits + 1

\* the status validateField sets on field f
StatusSet(f) ==
    groupClass'[f] = StatusClass(values[f], isValid(f, values[f]))

\* C15: an accepted submit event leaves every one of the three fields with
\* the status validateField sets for its value.
C15_AllFieldsValidated ==
    [][Accepted => \A f \in FieldSet : StatusSet(f)]_vars

\* C16: submitForm calls never overlap; isSubmitting is true, with the button
\* disabled, exactly while a submitForm call is pending; it turns true only in
\* an accepted handleSubmit and false only when that call completes; a submit
\* event arriving meanwhile changes nothing of the form or the notifications.
C16_OneInFlight ==
    /\ [](/\ Len(pendingSubmits) <= 1
          /\ isSubmitting <=> Len(pendingSubmits) = 1
          /\ buttonDisabled = isSubmitting
          /\ loaderShown = isSubmitting)
    /\ [][/\ (isSubmitting' /\ ~isSubmitting) => Accepted
          /\ (isSubmitting /\ ~isSubmitting') =>
                 pendingSubmits' = Tail(pendingSubmits)
          /\ (lastSubmit' = "ignored" /\ lastSubmit # "ignored") =>
                 /\ isSubmitting
                 /\ UNCHANGED <<values, groupClass, errorText, isSubmitting,
                                buttonDisabled, loaderShown, pendingSubmits,
                                submits, submitCalls, notes>>]_vars

\* a second submission is in flight and a submit event was ignored during it
C16_Witness ==
    /\ isSubmitting
    /\ lastSubmit = "ignored"
    /\ submitCalls = 2
    /\ Len(pendingSubmits) = 1

\* every field's trimmed value satisfies the rule of its kind
AllValid == \A f \in FieldSet : KindRule(f, Trim(values[f]))

\* C17: submitForm is called only with all three fields valid, with their
\* trimmed values; an accepted submit with an invalid field calls nothing,
\* shows an error notification and leaves the values alone; a success
\* notification and the reset happen only in the step that completes a call.
C17_SubmitOnlyValid ==
    [][/\ submitCalls' # submitCalls =>
              /\ AllValid
              /\ submitCalls' = submitCalls + 1
              /\ pendingSubmits' =
                     Append(pendingSubmits, [f \in FieldSet |-> Trim(values[f])])
       /\ (Accepted /\ ~AllValid) =>
              /\ submitCalls' = submitCalls
              /\ pendingSubmits' = pendingSubmits
              /\ values' = values
              /\ notes' = Append(RemoveExisting(notes), notes'[Len(notes')])
              /\ notes'[Len(notes')].type = "error"
              /\ notes'[Len(notes')].attached
       /\ (\/ /\ Len(notes') > Len(notes)
              /\ notes'[Len(notes')].type = "success"
           \/ \E f \in FieldSet : values[f] # <<>> /\ values'[f] = <<>>) =>
              /\ pendingSubmits # <<>>
              /\ pendingSubmits' = Tail(pendingSubmits)
              /\ values' = [f \in FieldSet |-> <<>>]]_vars

\* an invalid submit was rejected, then a valid one went through and the form
\* was reset
C17_Witness ==
    /\ Len(notes) = 2
    /\ notes[1].type = "error"
    /\ notes[2].type = "success"
    /\ submitCalls = 1
    /\ submits = 2
    /\ values = [f \in FieldSet |-> <<>>]

\* C18: whenever the form is submitting it eventually is not, with the button
\* enabled again; an accepted submit with an invalid field ends not
\* submitting; given that the timer of submitForm fires.
C18_LoadingCleared ==
    /\ isSubmitting ~> (~isSubmitting /\ ~buttonDisabled /\ ~loaderShown)
    /\ [][(Accepted /\ ~AllValid) => (~isSubmitting' /\ ~buttonDisabled')]_vars

\* two submissions went through one after the other and an invalid one was
\* rejected, and the form is idle again
C18_Witness ==
    /\ ~isSubmitting
    /\ ~buttonDisabled
    /\ submitCalls = 2
    /\ \E i \in DOMAIN notes : notes[i].type = "error"

====
